---- MODULE Spec2Model ----
(***************************************************************************)
(* The live capture / upscale pipeline of NU_Scaler.                       *)
(*                                                                         *)
(* Part 1 models LiveFeedScreen (nu_scaler_py/nu_scaler/main.py): the GUI  *)
(* thread runs the handlers start_capture, stop_capture, update_frame (the *)
(* frame timer's slot), on_upscale_finished, on_upscale_error and          *)
(* _clear_upscale_thread; every dispatched frame is upscaled by an         *)
(* UpscaleWorker on a QThread of its own.  Signals emitted on a worker     *)
(* thread reach the GUI thread as queued events (their receivers live in   *)
(* the GUI thread), so they are modelled as a FIFO `queue` that the GUI    *)
(* thread drains one event at a time, interleaved with timer ticks and     *)
(* user actions.                                                           *)
(*                                                                         *)
(* Part 2 models the game-capture tab of the launcher GUI                  *)
(* (nu_scaler_py/nu_scaler/gui.py).                                        *)
(*                                                                         *)
(* Part 3 models the GUI thread of LiveFeedScreen step by step: which slot *)
(* it is inside, with the frame timer and one worker running beside it.    *)
(*                                                                         *)
(* Part 4 models the adaptive quality of the core's upscaler, which        *)
(* gpu_optimizer.optimize_upscaler switches on; the core itself is outside *)
(* the Python sources, so its stepping rule follows the specification.     *)
(*                                                                         *)
(* Part 5 models the BufferPool of the core, likewise after the            *)
(* specification: upscale tasks acquire buffers and release them.          *)
(*                                                                         *)
(* Part 6 models the command-line benchmark (nu_scaler_py/benchmark_app.py)*)
(* from its arguments to its exit code.                                    *)
(*                                                                         *)
(* Part 7 models the frame loop of SimpleNuScalerApp                       *)
(* (nu_scaler_py/simple_gui.py), which upscales on the GUI thread; the     *)
(* frame loop of modern_ui.py is the same code.                            *)
(*                                                                         *)
(* Part 8 models one iteration of the GPU stress test                      *)
(* (nu_scaler_core/gpu_stress_test.py): the pool threads that run          *)
(* process_image on the one upscaler.                                      *)
(*                                                                         *)
(* Part 9 models the display mode of LiveFeedScreen: the embedded preview, *)
(* the fullscreen window and the corner overlay window.                    *)
(***************************************************************************)
EXTENDS Naturals, Integers, Sequences, FiniteSets, TLC

\* ---- bound of the model -------------------------------------------------
MaxFrames == 3
\* frames the capture source yields in one run (all sessions together); a
\* thread is created for a frame only, so it bounds the threads as well

MaxCaptures == 3
\* PyScreenCapture objects the game tab creates in one run

MaxAcquires == 2
\* times one buffer of the pool is handed out in one run

\* ---- program constants --------------------------------------------------
upscale_scale == 20
\* self.upscale_scale = 2.0, in tenths like the slider's value
DefaultSlider == 20
\* self.scale_slider.setValue(20)

None == "None"

\* ---- benchmark_app --------------------------------------------------------
\* A float given on the command line, in tenths, or NaN (argparse's type=float
\* accepts "nan").  Every ordered comparison with NaN is false.
Float(t) == [nan |-> FALSE, tenths |-> t]
NaN == [nan |-> TRUE, tenths |-> 0]
lt(a, t) == ~a.nan /\ a.tenths < t
gt(a, t) == ~a.nan /\ a.tenths > t

\* --scale-factor values, --mode choices, and the scale factors of batch mode.
ScaleArgs == {NaN} \cup {Float(t) : t \in {5, 9, 10, 15, 20, 40, 41, 50}}
Modes == {"single", "compare", "batch"}
BatchScales == {Float(15), Float(20), Float(30)}

\* ---- BufferPool ----------------------------------------------------------
\* The buffers the strategy's cap lets the pool allocate (all of one kind and
\* size class), the upscale tasks, and the handles acquire gives out: a buffer
\* with the number of the acquire.
Buffers == {1, 2}
Tasks == {1, 2}
Handles == [buf : Buffers, gen : 1..MaxAcquires]

\* ---- adaptive quality ---------------------------------------------------
\* The tiers, best first; quality is an index into them.
Tiers == <<"ultra", "quality", "balanced", "performance">>
\* Consecutive frames over budget before a step down, and under 70% of budget
\* before a step up.
FramesOver == 4
FramesUnder == 16
\* The frame budget, 1000 ms / target FPS, for a target of 100 FPS, and the
\* end-to-end frame times fed to the upscaler.
Budget == 10
FrameTimes == {4, 10, 16}

\* Input sizes the capture source delivers (the first one when the source
\* never resizes); slider positions the user picks (the slider holds tenths,
\* setRange(10, 40)).
FirstSize == [w |-> 2, h |-> 2]
FrameSizes == {FirstSize, [w |-> 3, h |-> 2]}
SliderChoices == {13, 20}

VARIABLES
  capture,               \* self.capture: None, "started", or "unstarted"
                         \* (an object whose start() raised)
  timerActive,           \* self.timer is running
  start_btn, stop_btn,   \* enabled state of the two buttons
  upscaler,              \* self.upscaler: NoUpscaler (None) or the object
  upscaler_initialized,
  _last_in_w, _last_in_h, _last_scale,
  scale_slider,          \* self.scale_slider.value()
  method_box,            \* self.method_box.currentText()
  interpolation_enabled,
  prev_frame_data,       \* NoPrevFrame (None) or the previous frame
  _upscale_thread,       \* 0 (None) or the id of the thread the GUI holds
  threads,               \* every QThread created: its state and its worker
  queue,                 \* events queued to the GUI thread by worker threads
  delivered,             \* the frames on_upscale_finished has shown
  nextFrame,             \* capture sequence number of the next frame
  sessionStart,          \* sequence number the running session began with
  worker_failed,         \* an upscale worker has raised since construction
  log_signal,            \* messages emitted on log_signal that the claims read:
                         \* [msg, frame, sess], frame the capture number of
                         \* the tick and sess its session
  dlss,                  \* DlssUpscaler in the core: "absent", "unusable"
                         \* (constructing or initializing it raises), "usable"
  resizable,             \* the capture source can change its frame size
  \* the game tab of gui.py's MainWindow
  game_capture,          \* self.game_capture: 0 (no attribute yet) or its id
  captures,              \* every PyScreenCapture made: "none", "new",
                         \* "started" or "stopped"
  game_timer,            \* self.game_timer: "none", "active" or "stopped"
  game_status,           \* text of the status label
  game_target,           \* what the target boxes select
  game_shown,            \* frames update_game_frame has displayed
  \* the GUI thread of LiveFeedScreen, step by step
  gui_in,                \* what the GUI thread executes: "loop" (its event
                         \* loop), or the call of update_frame or the slot it
                         \* is inside
  timer_due,             \* self.timer's interval has elapsed and its timeout
                         \* has not been handled yet
  loop_thread,           \* the upscale thread: "none", "running" (the worker
                         \* is inside upscale) or "finished" (signal queued)
  polls,                 \* calls of capture.get_frame
  shown,                 \* frames on_upscale_finished has shown
  \* the adaptive quality of the core's upscaler
  adaptive_quality,      \* set_adaptive_quality(True) has been called
  quality,               \* the current tier, an index into Tiers
  ewma_frame_ms,         \* moving average of the frame times fed so far
  over_run,              \* consecutive frames counted towards a step down
  under_run,             \* consecutive frames counted towards a step up
  over_streak,           \* history: the last frames, with adaptive quality on,
  under_streak,          \* whose average was over budget / under 70% of it, in
                         \* a row (capped)
  since_down,            \* history: frames since the last step down (capped)
  \* the BufferPool and the upscale tasks using it
  free,                  \* the free list: the buffers available, oldest first
  checked,               \* per buffer: the acquire it is checked out under
                         \* (0: not checked out)
  gen,                   \* per buffer: the acquires made of it so far
  violations,            \* the handles whose release was detected as an
                         \* invariant violation
  task_st,               \* per task: "idle" or "running" (in flight)
  hst,                   \* per handle: "none", "held" by its task, "released"
  htask,                 \* per handle: the task that acquired it (0: none)
  calls,                 \* per handle: the release calls made with it
  \* benchmark_app.main
  main_pc,               \* where main is: "parse_args", "checks", "run", "exit"
  args,                  \* the parsed arguments
  exit_code,             \* what main returned (-1: it has not returned)
  benchmarked,           \* the scale factors benchmarks were run with
  \* SimpleNuScalerApp
  simple_capture,        \* self.capture: None, "started" or "unstarted"
  simple_upscaler,       \* self.upscaler: the object and what it was
                         \* initialized with (NoSimpleUpscaler: None)
  simple_timer,          \* self.timer.isActive()
  simple_slider,         \* self.scale_slider.value()
  simple_last,           \* last_in_width, last_in_height, last_scale
                         \* (NoConfig: the attributes do not exist yet)
  simple_call,           \* the last upscale call: the frame's configuration
                         \* and the upscaler's
  \* run_gpu_stress_test
  stress_next,           \* the index of the next task executor.map hands out
  stress_run,            \* per pool thread: the task it runs (0: none) and
                         \* the call of process_image it is about to make
  stress_upscaler,       \* the shared upscaler: the task whose initialize
                         \* call was the last one (0: none yet)
  stress_call,           \* the last upscale call: the task that made it and
                         \* the task that initialized the upscaler last
  \* LiveFeedScreen's display mode
  display_mode,          \* self.display_mode ("False": the Python value False)
  fullscreen_display_window,  \* "none" (None), "hidden" or "visible"
  corner_overlay_window  \* "none" (None), "hidden" or "visible"

uiVars == <<capture, timerActive, start_btn, stop_btn>>
upVars == <<upscaler, upscaler_initialized, _last_in_w, _last_in_h, _last_scale>>
ctlVars == <<scale_slider, method_box, interpolation_enabled>>
envVars == <<dlss, resizable>>
gameVars == <<game_capture, captures, game_timer, game_status, game_target, game_shown>>
loopVars == <<gui_in, timer_due, loop_thread, polls, shown>>
aqVars == <<adaptive_quality, quality, ewma_frame_ms, over_run, under_run,
            over_streak, under_streak, since_down>>
poolVars == <<free, checked, gen, violations, task_st, hst, htask, calls>>
benchVars == <<main_pc, args, exit_code, benchmarked>>
simpleVars == <<simple_capture, simple_upscaler, simple_timer, simple_slider,
                simple_last, simple_call>>
stressVars == <<stress_next, stress_run, stress_upscaler, stress_call>>
displayVars == <<display_mode, fullscreen_display_window, corner_overlay_window>>
stillVars == <<envVars, gameVars, loopVars, aqVars, poolVars, benchVars, simpleVars,
               stressVars>>
fixedVars == <<stillVars, displayVars>>
restVars == <<fixedVars, worker_failed, log_signal>>
feedVars == <<uiVars, upVars, ctlVars, envVars, worker_failed, log_signal,
              prev_frame_data, _upscale_thread, threads, queue, delivered,
              nextFrame, sessionStart>>
liveVars == <<feedVars, loopVars, aqVars, poolVars, benchVars, simpleVars,
    stressVars, displayVars>>
notLoopVars == <<feedVars, gameVars, aqVars, poolVars, benchVars, simpleVars,
    stressVars, displayVars>>
notQualityVars == <<feedVars, gameVars, loopVars, poolVars, benchVars, simpleVars,
    stressVars, displayVars>>
notPoolVars == <<feedVars, gameVars, loopVars, aqVars, benchVars, simpleVars,
    stressVars, displayVars>>
notBenchVars == <<feedVars, gameVars, loopVars, aqVars, poolVars, simpleVars,
    stressVars, displayVars>>
notSimpleVars == <<feedVars, gameVars, loopVars, aqVars, poolVars, benchVars,
    stressVars, displayVars>>
notStressVars == <<feedVars, gameVars, loopVars, aqVars, poolVars, benchVars,
    simpleVars, displayVars>>

vars == <<liveVars, gameVars>>

ThreadIds == 1..MaxFrames
CaptureIds == 1..MaxCaptures

\* What game_target_box and game_window_box select: the whole screen, a
\* listed window, or the "Window" target with no usable title.
GameTargets == {"FullScreen", "Window", "NoWindow"}

NoFrame == [kind |-> "none", id |-> 0, prev |-> 0, sess |-> 0, w |-> 0, h |-> 0]
NoUpscaler == [method |-> "None", in_w |-> 0, in_h |-> 0, out_w |-> 0, out_h |-> 0,
               sess |-> 0]
NoPrevFrame == [id |-> 0, sess |-> 0, w |-> 0, h |-> 0]
NoThread == [st |-> "none", quitReq |-> FALSE, frame |-> NoFrame,
             out_w |-> 0, out_h |-> 0, upscaler |-> NoUpscaler]

\* int(x * scale) for scale = tenths / 10.0
ScaledDim(x, tenths) == (x * tenths) \div 10

\* The methods init_ui puts into method_box: DLSS first when the core has it.
MethodsOffered ==
  IF dlss = "absent" THEN {"WGPU Nearest", "WGPU Bilinear"}
  ELSE {"DLSS", "WGPU Nearest", "WGPU Bilinear"}

\* ---- MainWindow.__init__ of gui.py: the game tab as make_game_tab builds it --
InitGame ==
  /\ game_capture = 0
  /\ captures = [c \in CaptureIds |-> "none"]
  /\ game_timer = "none"
  /\ game_status = "Idle"
  /\ game_target \in GameTargets
  /\ game_shown = 0

\* The GUI thread enters its event loop with the timer stopped.
InitLoop ==
  /\ gui_in = "loop"
  /\ timer_due = FALSE
  /\ loop_thread = "none"
  /\ polls = 0
  /\ shown = 0

\* A new upscaler: adaptive quality off, the best tier, no frame time fed.
InitQuality ==
  /\ adaptive_quality = FALSE
  /\ quality = 1
  /\ ewma_frame_ms = 0
  /\ over_run = 0
  /\ under_run = 0
  /\ over_streak = 0
  /\ under_streak = 0
  /\ since_down = FramesOver

\* An empty pool: nothing allocated, no task in flight.
InitPool ==
  /\ free = <<>>
  /\ checked = [b \in Buffers |-> 0]
  /\ gen = [b \in Buffers |-> 0]
  /\ violations = {}
  /\ task_st = [t \in Tasks |-> "idle"]
  /\ hst = [h \in Handles |-> "none"]
  /\ htask = [h \in Handles |-> 0]
  /\ calls = [h \in Handles |-> 0]

\* benchmark_app.main is entered.
InitBench ==
  /\ main_pc = "parse_args"
  /\ args = [mode |-> "none", res_ok |-> FALSE, scale |-> NaN]
  /\ exit_code = -1
  /\ benchmarked = {}

\* ---- SimpleNuScalerApp.__init__ -------------------------------------------
\* An input size and a scale the upscaler is initialized with; none.
NoConfig == [w |-> 0, h |-> 0, scale |-> 0]
NoSimpleUpscaler == [held |-> FALSE, init |-> NoConfig]
NoCall == [frame |-> NoConfig, init |-> NoConfig]

InitSimple ==
  /\ simple_capture = None
  /\ simple_upscaler = NoSimpleUpscaler
  /\ simple_timer = FALSE
  /\ simple_slider = 20
  /\ simple_last = NoConfig
  /\ simple_call = NoCall

\* ---- run_gpu_stress_test --------------------------------------------------
\* ThreadPoolExecutor(max_workers=4).
max_workers == 4
\* One task per test image and scale factor, in the order they are appended.
StressTasks ==
  <<[w |-> 2, h |-> 2, scale |-> 15], [w |-> 2, h |-> 2, scale |-> 20],
    [w |-> 3, h |-> 2, scale |-> 15], [w |-> 3, h |-> 2, scale |-> 20]>>

\* The executor is entered: no task handed out, the upscaler just created.
InitStress ==
  /\ stress_next = 1
  /\ stress_run = [t \in 1..max_workers |-> [task |-> 0, pc |-> "idle"]]
  /\ stress_upscaler = 0
  /\ stress_call = [task |-> 0, init_by |-> 0]

\* The display mode as constructed: embedded, neither window made yet.
InitDisplay ==
  /\ display_mode = "embedded"
  /\ fullscreen_display_window = "none"
  /\ corner_overlay_window = "none"

\* ---- LiveFeedScreen.__init__ ---------------------------------------------
Init ==
  /\ capture = None
  /\ timerActive = FALSE
  /\ start_btn = TRUE
  /\ stop_btn = FALSE
  /\ upscaler = NoUpscaler
  /\ upscaler_initialized = FALSE
  /\ _last_in_w = 0
  /\ _last_in_h = 0
  /\ _last_scale = 0
  /\ scale_slider = DefaultSlider
  /\ dlss \in {"absent", "unusable", "usable"}
  /\ resizable \in BOOLEAN
  /\ worker_failed = FALSE
  /\ log_signal = {}
  /\ method_box = IF dlss = "absent" THEN "WGPU Nearest" ELSE "DLSS"
  /\ interpolation_enabled = FALSE
  /\ prev_frame_data = NoPrevFrame
  /\ _upscale_thread = 0
  /\ threads = [t \in ThreadIds |-> NoThread]
  /\ queue = <<>>
  /\ delivered = {}
  /\ nextFrame = 1
  /\ sessionStart = 0
  /\ InitGame
  /\ InitLoop
  /\ InitQuality
  /\ InitPool
  /\ InitBench
  /\ InitSimple
  /\ InitStress
  /\ InitDisplay

\* ---- stop_capture --------------------------------------------------------
\* Outcomes of self._upscale_thread.wait(2000) in stop_capture when the
\* worker is still inside upscaler.upscale: the call returns in time ("ok"),
\* raises in time ("err"), or the 2 seconds pass first ("timeout").
WaitOutcomes == {"ok", "err", "timeout"}

\* A finished signal carries the worker's out_w and out_h with the bytes its
\* upscaler produced; up_w and up_h record the output size that upscaler was
\* initialized with.
FinishedEvent(t) ==
  [type |-> "finished", t |-> t, frame |-> threads[t].frame,
   out_w |-> threads[t].out_w, out_h |-> threads[t].out_h,
   up_w |-> threads[t].upscaler.out_w, up_h |-> threads[t].upscaler.out_h]
ErrorEvent(t) ==
  [type |-> "error", t |-> t, frame |-> NoFrame, out_w |-> 0, out_h |-> 0,
   up_w |-> 0, up_h |-> 0]
ClearEvent(t) ==
  [type |-> "clear", t |-> t, frame |-> NoFrame, out_w |-> 0, out_h |-> 0,
   up_w |-> 0, up_h |-> 0]

\* A thread whose event loop has returned keeps nothing of its worker (both
\* are deleted later), so it is recorded like a thread never created.
Exited == NoThread

\* QThread.isRunning(): started and its event loop not yet returned.  The
\* worker is inside upscale ("running"), or back in the event loop after
\* emitting finished ("idle") or error ("failed").
isRunning(t) == threads[t].st \in {"running", "idle", "failed"}

\* A variant of the wait without its 2 second limit: it returns only when the
\* worker has; C22 tells it from StopWaits.
StopWaitsUntilDone ==
  IF _upscale_thread # 0 /\ threads[_upscale_thread].st = "running"
  THEN WaitOutcomes \ {"timeout"} ELSE {"ok"}

\* The wait outcomes that can happen to the thread the GUI holds: only a
\* worker still inside upscale can finish, fail or outlast the wait.
StopWaits ==
  IF _upscale_thread # 0 /\ threads[_upscale_thread].st = "running"
  THEN WaitOutcomes ELSE {"ok"}

\* "Clean up worker and thread": quit() and wait(2000) on a running thread.
\* The signals the worker and the thread emit while the GUI thread is blocked
\* in wait() are queued to the GUI thread.  Yields the new threads and queue.
StopThread(o) ==
  IF _upscale_thread = 0 \/ ~isRunning(_upscale_thread)
  THEN [threads |-> threads, queue |-> queue]
  ELSE LET t == _upscale_thread IN
    CASE threads[t].st = "running" /\ o = "ok" ->
           [threads |-> [threads EXCEPT ![t] = Exited],
            queue |-> queue \o <<FinishedEvent(t), ClearEvent(t)>>]
      [] threads[t].st = "running" /\ o = "err" ->
           [threads |-> [threads EXCEPT ![t] = Exited],
            queue |-> queue \o <<ErrorEvent(t), ClearEvent(t)>>]
      [] threads[t].st = "running" /\ o = "timeout" ->
           [threads |-> [threads EXCEPT ![t].quitReq = TRUE], queue |-> queue]
      [] OTHER ->
           [threads |-> [threads EXCEPT ![t] = Exited],
            queue |-> Append(queue, ClearEvent(t))]

\* The worker raises while stop_capture waits for its thread.
FailsInWait(o) ==
  _upscale_thread # 0 /\ threads[_upscale_thread].st = "running" /\ o = "err"

\* A window after hide() or close(), when there is one.
closed(window) == IF window = "visible" THEN "hidden" ELSE window

\* A variant that leaves the buttons as they are; C27 tells it from
\* stop_capture.
stop_capture_keeps_buttons(o) ==
  /\ o \in StopWaits
  /\ timerActive' = FALSE
  /\ capture' = None
  /\ threads' = StopThread(o).threads
  /\ queue' = StopThread(o).queue
  /\ _upscale_thread' = 0
  /\ upscaler' = NoUpscaler
  /\ upscaler_initialized' = FALSE
  /\ worker_failed' = (worker_failed \/ FailsInWait(o))
  /\ fullscreen_display_window' = closed(fullscreen_display_window)
  /\ UNCHANGED <<start_btn, stop_btn, _last_in_w, _last_in_h, _last_scale, ctlVars,
                 stillVars, display_mode, corner_overlay_window, log_signal,
                 prev_frame_data, delivered, nextFrame, sessionStart>>

\* stop_capture: the timer is stopped, the capture object stopped and
\* dropped, the upscale thread quit and awaited, the upscaler dropped and
\* the buttons reset.
stop_capture(o) ==
  /\ o \in StopWaits
  /\ timerActive' = FALSE
  /\ capture' = None
  /\ threads' = StopThread(o).threads
  /\ queue' = StopThread(o).queue
  /\ _upscale_thread' = 0
  /\ upscaler' = NoUpscaler
  /\ upscaler_initialized' = FALSE
  /\ start_btn' = TRUE
  /\ stop_btn' = FALSE
  /\ worker_failed' = (worker_failed \/ FailsInWait(o))
  /\ fullscreen_display_window' = closed(fullscreen_display_window)
  /\ UNCHANGED <<_last_in_w, _last_in_h, _last_scale, ctlVars, stillVars, display_mode,
                 corner_overlay_window, log_signal, prev_frame_data, delivered,
                 nextFrame, sessionStart>>

StopCapture == \E o \in WaitOutcomes : stop_capture(o)

\* ---- start_capture -------------------------------------------------------
\* What a call can meet: a selection that names no valid target (the early
\* returns), capture.start raising AttributeError or another exception, or
\* success.
StartOutcomes == {"ok", "invalid_target", "attribute_error", "start_raises"}

start_capture(outcome, o) ==
  IF outcome = "invalid_target"
  THEN o = "ok" /\ UNCHANGED vars
  ELSE \* if self.capture: self.stop_capture(silent=True)
    LET stopped == capture # None
        thr == IF stopped THEN StopThread(o) ELSE [threads |-> threads, queue |-> queue]
    IN
    /\ o \in (IF stopped THEN StopWaits ELSE {"ok"})
    /\ threads' = thr.threads
    /\ queue' = thr.queue
    /\ _upscale_thread' = IF stopped THEN 0 ELSE _upscale_thread
    /\ upscaler' = IF stopped \/ outcome = "ok" THEN NoUpscaler ELSE upscaler
    /\ upscaler_initialized' =
         IF stopped \/ outcome = "ok" THEN FALSE ELSE upscaler_initialized
    /\ capture' = IF outcome = "ok" THEN "started" ELSE "unstarted"
    /\ timerActive' = (outcome = "ok")
    /\ start_btn' = IF outcome = "ok" THEN FALSE
                    ELSE IF outcome = "start_raises" \/ stopped THEN TRUE
                    ELSE start_btn
    /\ stop_btn' = IF outcome = "ok" THEN TRUE
                   ELSE IF outcome = "start_raises" \/ stopped THEN FALSE
                   ELSE stop_btn
    /\ sessionStart' = IF outcome = "ok" THEN nextFrame ELSE sessionStart
    /\ worker_failed' = (worker_failed \/ (stopped /\ FailsInWait(o)))
    /\ fullscreen_display_window' =
         IF stopped THEN closed(fullscreen_display_window) ELSE fullscreen_display_window
    /\ UNCHANGED <<_last_in_w, _last_in_h, _last_scale, ctlVars, stillVars, display_mode,
                   corner_overlay_window, log_signal, prev_frame_data, delivered,
                   nextFrame>>

StartCapture == \E outcome \in StartOutcomes, o \in WaitOutcomes : start_capture(outcome, o)

\* ---- update_frame ---------------------------------------------------------
\* self.interpolator: the core library provides WgpuFrameInterpolator.  (When
\* it does not, the pipeline behaves as with interpolation switched off.)
interpolator == TRUE

\* A variant that runs the interpolator whatever the size of the previous
\* frame; the amended C12 tells it from CanInterpolate.
CanInterpolateAnySize(cur) ==
  /\ interpolation_enabled /\ interpolator
  /\ prev_frame_data # NoPrevFrame

\* The interpolation step runs the interpolator when interpolation is on and
\* a previous frame of the same size is held.
CanInterpolate(cur) ==
  /\ interpolation_enabled /\ interpolator
  /\ prev_frame_data # NoPrevFrame
  /\ prev_frame_data.w = cur.w /\ prev_frame_data.h = cur.h

\* A variant that interpolates on every tick, previous frame or not; the
\* amended C2 tells it from frame_to_process.
frame_to_process_always(cur, ok) ==
  [kind |-> "Interpolated", id |-> cur.id, prev |-> prev_frame_data.id,
   sess |-> cur.sess, w |-> cur.w, h |-> cur.h]

\* Interpolation is on and the previous frame held has another size: the
\* pair is skipped and logged.
DimensionMismatch(cur) ==
  /\ interpolation_enabled /\ interpolator
  /\ prev_frame_data # NoPrevFrame
  /\ (prev_frame_data.w # cur.w \/ prev_frame_data.h # cur.h)

\* The frame handed to the upscaler: the interpolated frame when
\* interpolate_py ran and returned bytes (ok), else the captured frame.
frame_to_process(cur, ok) ==
  IF CanInterpolate(cur) /\ ok
  THEN [kind |-> "Interpolated", id |-> cur.id, prev |-> prev_frame_data.id,
        sess |-> cur.sess, w |-> cur.w, h |-> cur.h]
  ELSE [kind |-> "Captured", id |-> cur.id, prev |-> 0,
        sess |-> cur.sess, w |-> cur.w, h |-> cur.h]

\* A variant that looks at size and scale only; C7 tells it from
\* reinit_needed.
reinit_on_change_only(cur) ==
  \/ _last_in_w # cur.w \/ _last_in_h # cur.h
  \/ _last_scale # scale_slider

\* Only re-initialize the upscaler when there is none or the input size or
\* the scale changed.
reinit_needed(cur) ==
  \/ upscaler = NoUpscaler \/ ~upscaler_initialized
  \/ _last_in_w # cur.w \/ _last_in_h # cur.h
  \/ _last_scale # scale_slider

\* init_upscaler(in_w, in_h, scale): the upscaler object it returns, or None
\* when the method is unknown or constructing / initializing it raised.
init_upscaler(in_w, in_h, scale) ==
  LET obj == [method |-> method_box, in_w |-> in_w, in_h |-> in_h,
              out_w |-> ScaledDim(in_w, scale), out_h |-> ScaledDim(in_h, scale),
              sess |-> sessionStart]
  IN CASE method_box = "DLSS" -> IF dlss = "usable" THEN obj ELSE NoUpscaler
       [] method_box = "WGPU Nearest" -> obj
       [] method_box = "WGPU Bilinear" -> obj
       [] OTHER -> NoUpscaler

\* A variant that dispatches whether or not a thread is held; the amended C4
\* tells it from CanDispatch.
CanDispatchAlways == TRUE

\* Only start a new upscale if no worker is running.
CanDispatch == _upscale_thread = 0

\* A variant that retains only the frames handed to a worker; C21 tells it
\* from prev_after.
prev_after_dispatch_only(cur, dispatch) ==
  IF dispatch THEN [id |-> cur.id, sess |-> cur.sess, w |-> cur.w, h |-> cur.h]
  ELSE prev_frame_data

\* self.prev_frame_data after the interpolation step: the captured frame,
\* whatever happens to it afterwards.
prev_after(cur, dispatch) ==
  [id |-> cur.id, sess |-> cur.sess, w |-> cur.w, h |-> cur.h]

\* The part of update_frame after get_frame returned a frame of size sz.
ProcessFrame(sz, ok) ==
  LET cur == [id |-> nextFrame, sess |-> sessionStart, w |-> sz.w, h |-> sz.h]
      ftp == frame_to_process(cur, ok)
      reinit == reinit_needed(cur)
      inited == init_upscaler(cur.w, cur.h, scale_slider)
      up == IF reinit THEN inited ELSE upscaler
      dispatch == up # NoUpscaler /\ CanDispatch
      t == nextFrame
  IN
  /\ nextFrame <= MaxFrames
  /\ resizable \/ sz = FirstSize
  /\ ~CanInterpolate(cur) => ok
  /\ nextFrame' = nextFrame + 1
  /\ prev_frame_data' = prev_after(cur, dispatch)
  /\ upscaler' = up
  /\ upscaler_initialized' = IF reinit THEN (inited # NoUpscaler) ELSE upscaler_initialized
  /\ _last_in_w' = IF reinit THEN cur.w ELSE _last_in_w
  /\ _last_in_h' = IF reinit THEN cur.h ELSE _last_in_h
  /\ _last_scale' = IF reinit THEN scale_slider ELSE _last_scale
  /\ IF dispatch
     THEN /\ _upscale_thread' = t
          /\ threads' = [threads EXCEPT ![t] =
                [st |-> "running", quitReq |-> FALSE, frame |-> ftp,
                 out_w |-> ScaledDim(cur.w, upscale_scale),
                 out_h |-> ScaledDim(cur.h, upscale_scale),
                 upscaler |-> up]]
     ELSE UNCHANGED <<_upscale_thread, threads>>
  /\ log_signal' = log_signal
       \cup (IF DimensionMismatch(cur)
             THEN {[msg |-> "Frame Interpolation: Skipped (dimension mismatch)",
                    frame |-> nextFrame, sess |-> sessionStart]}
             ELSE {})
       \cup (IF reinit /\ inited = NoUpscaler
             THEN {[msg |-> "Error initializing upscaler", frame |-> nextFrame,
                    sess |-> sessionStart]}
             ELSE {})
  /\ UNCHANGED <<uiVars, ctlVars, fixedVars, worker_failed, queue, delivered,
                 sessionStart>>

\* The frame timer's slot.  It returns at once without a capture object or
\* when get_frame() has no new frame.
update_frame ==
  /\ timerActive
  /\ \/ /\ capture # None
        /\ \E sz \in FrameSizes, ok \in BOOLEAN : ProcessFrame(sz, ok)
     \/ UNCHANGED vars

\* ---- UpscaleWorker.run, on its own thread -----------------------------------
\* upscale returned: finished is emitted, which queues its GUI-thread slots
\* (on_upscale_finished, then the thread's quit); the worker thread goes back
\* to its event loop.
WorkerFinished(t) ==
  /\ threads[t].st = "running"
  /\ queue' = Append(queue, FinishedEvent(t))
  /\ threads' = [threads EXCEPT ![t].st = "idle"]
  /\ UNCHANGED <<uiVars, upVars, ctlVars, restVars, prev_frame_data, _upscale_thread,
                 delivered, nextFrame, sessionStart>>

\* upscale raised: error is emitted, which queues on_upscale_error only.
WorkerError(t) ==
  /\ threads[t].st = "running"
  /\ queue' = Append(queue, ErrorEvent(t))
  /\ threads' = [threads EXCEPT ![t].st = "failed"]
  /\ worker_failed' = TRUE
  /\ UNCHANGED <<uiVars, upVars, ctlVars, fixedVars, log_signal, prev_frame_data,
                 _upscale_thread, delivered, nextFrame, sessionStart>>

\* A thread told to quit leaves its event loop once the worker is back in it:
\* QThread.finished is emitted, which queues _clear_upscale_thread.
ThreadExit(t) ==
  /\ threads[t].st \in {"idle", "failed"} /\ threads[t].quitReq
  /\ threads' = [threads EXCEPT ![t] = Exited]
  /\ queue' = Append(queue, ClearEvent(t))
  /\ UNCHANGED <<uiVars, upVars, ctlVars, restVars, prev_frame_data, _upscale_thread,
                 delivered, nextFrame, sessionStart>>

\* ---- slots the GUI thread runs for queued events --------------------------
\* The sink: the upscaled frame is shown.
on_upscale_finished(e) ==
  delivered' = delivered \cup
    {[kind |-> e.frame.kind, id |-> e.frame.id, prev |-> e.frame.prev,
      sess |-> e.frame.sess, w |-> e.out_w, h |-> e.out_h,
      up_w |-> e.up_w, up_h |-> e.up_h]}

\* QThread.quit, the slot connected to finished after on_upscale_finished:
\* the thread is told to leave its event loop.
thread_quit(e) ==
  threads' = IF isRunning(e.t) THEN [threads EXCEPT ![e.t].quitReq = TRUE] ELSE threads

\* The GUI-thread slots of UpscaleWorker.finished, in connection order.
WorkerFinishedSlots(e) ==
  /\ on_upscale_finished(e)
  /\ thread_quit(e)
  /\ UNCHANGED <<uiVars, upVars, ctlVars, restVars, prev_frame_data, _upscale_thread,
                 nextFrame, sessionStart>>

\* A variant that stops the pipeline on a worker error; the amended C6 tells
\* it from on_upscale_error.
on_upscale_error_stops(e) ==
  /\ upscaler' = NoUpscaler
  /\ upscaler_initialized' = FALSE
  /\ timerActive' = FALSE
  /\ start_btn' = TRUE
  /\ stop_btn' = FALSE
  /\ UNCHANGED <<capture, _last_in_w, _last_in_h, _last_scale, ctlVars, restVars,
                 prev_frame_data, _upscale_thread, threads, delivered, nextFrame,
                 sessionStart>>

\* on_upscale_error: the error is shown and the upscaler dropped.
on_upscale_error(e) ==
  /\ upscaler' = NoUpscaler
  /\ upscaler_initialized' = FALSE
  /\ UNCHANGED <<uiVars, _last_in_w, _last_in_h, _last_scale, ctlVars, restVars,
                 prev_frame_data, _upscale_thread, threads, delivered, nextFrame,
                 sessionStart>>

_clear_upscale_thread(e) ==
  /\ _upscale_thread' = 0
  /\ UNCHANGED <<uiVars, upVars, ctlVars, restVars, prev_frame_data, threads,
                 delivered, nextFrame, sessionStart>>

\* The GUI event loop takes the oldest queued event.
GuiEvent ==
  /\ queue # <<>>
  /\ queue' = Tail(queue)
  /\ LET e == Head(queue) IN
       CASE e.type = "finished" -> WorkerFinishedSlots(e)
         [] e.type = "error" -> on_upscale_error(e)
         [] e.type = "clear" -> _clear_upscale_thread(e)

\* ---- controls the user can change at any time ------------------------------
toggle_interpolation ==
  /\ interpolation_enabled' = ~interpolation_enabled
  /\ prev_frame_data' = NoPrevFrame
  /\ UNCHANGED <<uiVars, upVars, scale_slider, method_box, restVars,
                 _upscale_thread, threads, queue, delivered, nextFrame, sessionStart>>

SetScale ==
  /\ \E v \in SliderChoices : v # scale_slider /\ scale_slider' = v
  /\ UNCHANGED <<uiVars, upVars, method_box, interpolation_enabled, restVars,
                 prev_frame_data, _upscale_thread, threads, queue, delivered,
                 nextFrame, sessionStart>>

SetMethod ==
  /\ \E m \in MethodsOffered : m # method_box /\ method_box' = m
  /\ UNCHANGED <<uiVars, upVars, scale_slider, interpolation_enabled, restVars,
                 prev_frame_data, _upscale_thread, threads, queue, delivered,
                 nextFrame, sessionStart>>

Worker == \E t \in ThreadIds : WorkerFinished(t) \/ WorkerError(t) \/ ThreadExit(t)

\* ---- the game tab of gui.py ------------------------------------------------
\* The PyScreenCapture object the next start_game_capture constructs.
NewCapture == CHOOSE c \in CaptureIds :
  captures[c] = "none" /\ \A d \in CaptureIds : d < c => captures[d] # "none"

StartResults == {"ok", "raises"}

\* start_game_capture: self.game_capture is replaced by a new object before the
\* target is looked at; with no usable window title the handler returns; else
\* the capture is started and, unless start raised, a new timer is made and
\* started (the timer it replaces is dropped with its last reference).
start_game_capture(r) ==
  /\ \E c \in CaptureIds : captures[c] = "none"
  /\ game_capture' = NewCapture
  /\ IF game_target = "NoWindow" \/ r = "raises"
     THEN /\ captures' = [captures EXCEPT ![NewCapture] = "new"]
          /\ UNCHANGED <<game_timer, game_status>>
     ELSE /\ captures' = [captures EXCEPT ![NewCapture] = "started"]
          /\ game_status' = "Running"
          /\ game_timer' = "active"
  /\ UNCHANGED <<game_target, game_shown, liveVars>>

StartGameCapture == \E r \in StartResults : start_game_capture(r)

\* self.game_stop_btn.isEnabled(): the button is disabled when the tab is
\* built, and no handler of the tab enables it.
game_stop_btn == FALSE

\* What self.game_capture.stop() can do: return, or raise (the backend fails,
\* for instance after its window has gone).
StopResults == {"ok", "raises"}

\* stop_game_capture, called with the status label showing text: the timer is
\* stopped, then the capture self.game_capture names; when its stop raises,
\* the exception leaves the handler before the label is reset.
stop_game_capture(r, text) ==
  /\ game_timer' = IF game_timer = "none" THEN "none" ELSE "stopped"
  /\ IF game_capture # 0 /\ r = "raises"
     THEN /\ captures' = captures
          /\ game_status' = text
     ELSE /\ captures' = IF game_capture = 0 THEN captures
                         ELSE [captures EXCEPT ![game_capture] = "stopped"]
          /\ game_status' = "Idle"
  /\ UNCHANGED <<game_capture, game_target, game_shown, liveVars>>

\* update_game_frame, the game timer's slot: without a frame nothing happens
\* (only a started capture has frames); a frame is upscaled and shown, or the
\* upscaler raises, the label shows the error and stop_game_capture is called.
update_game_frame ==
  /\ game_timer = "active"
  /\ \/ UNCHANGED vars
     \/ /\ captures[game_capture] = "started"
        /\ game_shown < MaxFrames
        /\ game_shown' = game_shown + 1
        /\ UNCHANGED <<game_capture, captures, game_timer, game_status, game_target,
                       liveVars>>
     \/ /\ captures[game_capture] = "started"
        /\ \E r \in StopResults : stop_game_capture(r, "Error")

\* The user picks another target in the boxes.
SetGameTarget ==
  /\ \E g \in GameTargets : g # game_target /\ game_target' = g
  /\ UNCHANGED <<game_capture, captures, game_timer, game_status, game_shown, liveVars>>

\* ---- the GUI thread, step by step -------------------------------------------
\* The calls update_frame makes after the capture poll, and the sink slot:
\* everything the GUI thread does downstream of capture.get_frame.
Downstream == {"interpolate_py", "init_upscaler", "on_upscale_finished"}

\* self.timer (interval 100 ms) times out; the timeout is delivered when the
\* GUI thread is back in its event loop.
TimerFires ==
  /\ ~timer_due /\ polls < MaxFrames
  /\ timer_due' = TRUE
  /\ UNCHANGED <<gui_in, loop_thread, polls, shown, notLoopVars>>

\* The event loop delivers the timeout: update_frame is entered and polls the
\* capture.
BeginTick ==
  /\ gui_in = "loop" /\ timer_due
  /\ gui_in' = "get_frame"
  /\ timer_due' = FALSE
  /\ polls' = polls + 1
  /\ UNCHANGED <<loop_thread, shown, notLoopVars>>

\* update_frame goes on on the GUI thread: get_frame returned None and the
\* slot returns, or it returned a frame and the slot goes through the
\* interpolation (when enabled with a previous frame), init_upscaler (when
\* needed) and the dispatch, which starts a thread unless one is held.
StepTick ==
  /\ \/ /\ gui_in = "get_frame"
        /\ gui_in' \in {"loop", "interpolate_py", "init_upscaler", "dispatch"}
     \/ /\ gui_in = "interpolate_py"
        /\ gui_in' \in {"init_upscaler", "dispatch"}
     \/ /\ gui_in = "init_upscaler"
        /\ gui_in' \in {"loop", "dispatch"}
  /\ UNCHANGED <<timer_due, loop_thread, polls, shown, notLoopVars>>

EndTick ==
  /\ gui_in = "dispatch"
  /\ gui_in' = "loop"
  /\ loop_thread' = IF loop_thread = "none" THEN "running" ELSE loop_thread
  /\ UNCHANGED <<timer_due, polls, shown, notLoopVars>>

\* UpscaleWorker.run on the worker thread: upscale returns and finished is
\* emitted, queued to the GUI thread.
LoopWorkerFinished ==
  /\ loop_thread = "running"
  /\ loop_thread' = "finished"
  /\ UNCHANGED <<gui_in, timer_due, polls, shown, notLoopVars>>

\* The event loop delivers the finished signal: on_upscale_finished runs on
\* the GUI thread.
BeginSink ==
  /\ gui_in = "loop" /\ loop_thread = "finished"
  /\ gui_in' = "on_upscale_finished"
  /\ UNCHANGED <<timer_due, loop_thread, polls, shown, notLoopVars>>

\* on_upscale_finished returns; the thread quits and is cleared.
EndSink ==
  /\ gui_in = "on_upscale_finished"
  /\ gui_in' = "loop"
  /\ loop_thread' = "none"
  /\ shown' = shown + 1
  /\ UNCHANGED <<timer_due, polls, notLoopVars>>

\* ---- adaptive quality ----------------------------------------------------------
\* optimize_upscaler: upscaler.set_adaptive_quality(True).
set_adaptive_quality ==
  /\ ~adaptive_quality
  /\ adaptive_quality' = TRUE
  /\ UNCHANGED <<quality, ewma_frame_ms, over_run, under_run, over_streak,
                 under_streak, since_down, notQualityVars>>

\* The exponentially weighted moving average after a frame of ms milliseconds
\* (weight 1/2).
ewma(avg, ms) == (avg + ms) \div 2

OverBudget(avg) == avg > Budget
UnderBudget(avg) == 10 * avg < 7 * Budget

\* A variant that keeps the count of a run once the tier has stepped; C18
\* tells it from run_after.
run_kept(run, stepped) == IF stepped THEN run - 1 ELSE run

\* The count of a run of frames after this frame: it starts again once the
\* tier has stepped (the cooldown).
run_after(run, stepped) == IF stepped THEN 0 ELSE run

Capped(n) == IF n > FramesUnder THEN FramesUnder ELSE n

\* The coordinator feeds a frame's end-to-end time to the upscaler.
report_frame_time(ms) ==
  LET avg == ewma(ewma_frame_ms, ms)
      o == IF adaptive_quality /\ OverBudget(avg) THEN over_run + 1 ELSE 0
      u == IF adaptive_quality /\ UnderBudget(avg) THEN under_run + 1 ELSE 0
      down == o >= FramesOver
      up == u >= FramesUnder
  IN
  /\ ewma_frame_ms' = avg
  /\ quality' = IF down /\ quality < Len(Tiers) THEN quality + 1
                ELSE IF up /\ quality > 1 THEN quality - 1
                ELSE quality
  /\ over_run' = run_after(o, down)
  /\ under_run' = run_after(u, up)
  /\ over_streak' = IF adaptive_quality /\ OverBudget(avg)
                    THEN Capped(over_streak + 1) ELSE 0
  /\ under_streak' = IF adaptive_quality /\ UnderBudget(avg)
                     THEN Capped(under_streak + 1) ELSE 0
  /\ since_down' = IF quality' > quality THEN 0 ELSE Capped(since_down + 1)
  /\ UNCHANGED <<adaptive_quality, notQualityVars>>

ReportFrameTime == \E ms \in FrameTimes : report_frame_time(ms)

\* ---- BufferPool ----------------------------------------------------------------
\* The buffers the pool has allocated and tracks.
Tracked == {b \in Buffers : gen[b] > 0}
InFree(b) == \E i \in 1..Len(free) : free[i] = b
\* The handles a task holds, and the tasks holding a buffer.
Held(t) == {h \in Handles : hst[h] = "held" /\ htask[h] = t}
Holders(b) == {t \in Tasks : \E h \in Held(t) : h.buf = b}

\* A task starts: it is in flight.
start_task(t) ==
  /\ task_st[t] = "idle"
  /\ task_st' = [task_st EXCEPT ![t] = "running"]
  /\ UNCHANGED <<free, checked, gen, violations, hst, htask, calls, notPoolVars>>

\* A variant that leaves a buffer handed out in the free list; C19 tells it
\* from free_after_acquire.
free_kept(fromFree) == free

\* The free list after an acquire: a buffer taken from it is removed.
free_after_acquire(fromFree) == IF fromFree THEN Tail(free) ELSE free

\* acquire, called by a task in flight: the oldest free buffer, or with an
\* empty free list a newly allocated one while the cap allows; else the call
\* fails with OutOfVram and nothing changes.
acquire(t) ==
  LET fromFree == free # <<>>
      b == IF fromFree THEN Head(free)
           ELSE CHOOSE c \in Buffers \ Tracked : \A d \in Buffers \ Tracked : c <= d
      h == [buf |-> b, gen |-> gen[b] + 1]
  IN
  /\ task_st[t] = "running"
  /\ fromFree \/ Tracked # Buffers
  /\ gen[b] < MaxAcquires
  /\ free' = free_after_acquire(fromFree)
  /\ gen' = [gen EXCEPT ![b] = gen[b] + 1]
  /\ checked' = [checked EXCEPT ![b] = gen[b] + 1]
  /\ hst' = [hst EXCEPT ![h] = "held"]
  /\ htask' = [htask EXCEPT ![h] = t]
  /\ UNCHANGED <<violations, task_st, calls, notPoolVars>>

\* A variant that takes every buffer for checked out; C20 tells it from
\* checked_out.
checked_out_always(h) == TRUE

\* The pool's bookkeeping has the buffer checked out under this handle.
checked_out(h) == checked[h.buf] = h.gen

\* release, called by a task in flight with a handle it acquired, released
\* already or not: the buffer goes back to the free list, or the call is
\* detected as an invariant violation and changes nothing else.
release(t, h) ==
  /\ task_st[t] = "running"
  /\ htask[h] = t /\ hst[h] # "none"
  /\ calls[h] < 2
  /\ calls' = [calls EXCEPT ![h] = calls[h] + 1]
  /\ IF checked_out(h)
     THEN /\ free' = Append(free, h.buf)
          /\ checked' = [checked EXCEPT ![h.buf] = 0]
          /\ hst' = [hst EXCEPT ![h] = "released"]
          /\ UNCHANGED violations
     ELSE /\ violations' = violations \cup {h}
          /\ UNCHANGED <<free, checked, hst>>
  /\ UNCHANGED <<gen, task_st, htask, notPoolVars>>

\* The buffers of a set of handles as a list, in buffer order.
RECURSIVE BufferList(_)
BufferList(hs) ==
  IF hs = {} THEN <<>>
  ELSE LET h == CHOOSE x \in hs : \A y \in hs : x.buf <= y.buf
       IN <<h.buf>> \o BufferList(hs \ {h})

\* A task completes or is cancelled: it releases the buffers it holds and is
\* no longer in flight.
finish_task(t) ==
  /\ task_st[t] = "running"
  /\ task_st' = [task_st EXCEPT ![t] = "idle"]
  /\ free' = free \o BufferList(Held(t))
  /\ checked' = [b \in Buffers |-> IF t \in Holders(b) THEN 0 ELSE checked[b]]
  /\ hst' = [h \in Handles |-> IF h \in Held(t) THEN "released" ELSE hst[h]]
  /\ calls' = [h \in Handles |-> IF h \in Held(t) THEN calls[h] + 1 ELSE calls[h]]
  /\ UNCHANGED <<gen, violations, htask, notPoolVars>>

StartTask == \E t \in Tasks : start_task(t)
Acquire == \E t \in Tasks : acquire(t)
Release == \E t \in Tasks, h \in Handles : release(t, h)
FinishTask == \E t \in Tasks : finish_task(t)

\* ---- benchmark_app.main --------------------------------------------------------
\* parse_args: the mode, the scale factor, and an input resolution that has
\* the WIDTHxHEIGHT format or not.
parse_args ==
  /\ main_pc = "parse_args"
  /\ args' \in [mode : Modes, res_ok : BOOLEAN, scale : ScaleArgs]
  /\ main_pc' = "checks"
  /\ UNCHANGED <<exit_code, benchmarked, notBenchVars>>

\* main returns 1 on an input resolution it cannot parse and on a scale
\* factor below 1.0 or above 4.0.
main_checks ==
  /\ main_pc = "checks"
  /\ IF ~args.res_ok \/ lt(args.scale, 10) \/ gt(args.scale, 40)
     THEN main_pc' = "exit" /\ exit_code' = 1
     ELSE main_pc' = "run" /\ exit_code' = exit_code
  /\ UNCHANGED <<args, benchmarked, notBenchVars>>

\* The benchmark of the mode: single and compare run with the requested scale
\* factor, batch with its own; main returns 0 when results came back, else 1.
main_run ==
  /\ main_pc = "run"
  /\ benchmarked' = IF args.mode = "batch" THEN BatchScales ELSE {args.scale}
  /\ \E results \in BOOLEAN : exit_code' = IF results THEN 0 ELSE 1
  /\ main_pc' = "exit"
  /\ UNCHANGED <<args, notBenchVars>>

\* ---- SimpleNuScalerApp ----------------------------------------------------------
\* start_capture, by the Start button (enabled exactly while the timer is
\* stopped): a new upscaler object and a new capture object are made, the
\* capture started and, unless that raised, the timer started.
simple_start_capture ==
  /\ ~simple_timer
  /\ simple_upscaler' = [held |-> TRUE, init |-> NoConfig]
  /\ \E r \in StartResults :
       /\ simple_capture' = IF r = "ok" THEN "started" ELSE "unstarted"
       /\ simple_timer' = (r = "ok")
  /\ UNCHANGED <<simple_slider, simple_last, simple_call, notSimpleVars>>

\* stop_capture: the timer is stopped, the capture and the upscaler dropped.
simple_stop ==
  /\ simple_timer' = FALSE
  /\ simple_capture' = None
  /\ simple_upscaler' = NoSimpleUpscaler

\* The Stop button, enabled exactly while the timer runs.
simple_stop_capture ==
  /\ simple_timer
  /\ simple_stop
  /\ UNCHANGED <<simple_slider, simple_last, simple_call, notSimpleVars>>

\* The scale slider (range 10..40) is moved.
simple_set_scale ==
  /\ \E v \in {10, 13, 20, 40} : v # simple_slider /\ simple_slider' = v
  /\ UNCHANGED <<simple_capture, simple_upscaler, simple_timer, simple_last,
                 simple_call, notSimpleVars>>

\* Check if we need to reinitialize the upscaler.
simple_reinit_needed(cfg) == simple_last = NoConfig \/ simple_last # cfg

\* update_frame with a frame of size sz: the upscaler is initialized when the
\* size or the scale differs from the last ones recorded, then upscale is
\* called; an exception of either call stops the capture.
simple_process(sz, o) ==
  LET cfg == [w |-> sz.w, h |-> sz.h, scale |-> simple_slider]
      init == IF simple_reinit_needed(cfg) THEN cfg ELSE simple_upscaler.init
  IN  IF simple_reinit_needed(cfg) /\ o = "initialize_raises"
      THEN simple_stop /\ UNCHANGED <<simple_last, simple_call>>
      ELSE /\ simple_last' = IF simple_reinit_needed(cfg) THEN cfg ELSE simple_last
           /\ simple_call' = [frame |-> cfg, init |-> init]
           /\ IF o = "upscale_raises"
              THEN simple_stop
              ELSE /\ simple_upscaler' = [simple_upscaler EXCEPT !.init = init]
                   /\ UNCHANGED <<simple_capture, simple_timer>>

\* The timer's slot: nothing without a capture and an upscaler, or when
\* get_frame has no frame.
simple_update_frame ==
  /\ simple_timer
  /\ IF simple_capture = None \/ ~simple_upscaler.held
     THEN UNCHANGED <<simple_capture, simple_upscaler, simple_timer, simple_last,
                      simple_call>>
     ELSE \/ UNCHANGED <<simple_capture, simple_upscaler, simple_timer, simple_last,
                         simple_call>>
          \/ \E sz \in FrameSizes, o \in {"ok", "initialize_raises", "upscale_raises"} :
               simple_process(sz, o)
  /\ UNCHANGED <<simple_slider, notSimpleVars>>

\* ---- the display mode of LiveFeedScreen -----------------------------------------
\* toggle_display_mode(mode): with mode None the next mode of the cycle is
\* taken; the window of the current mode is hidden, the mode stored, and the
\* window of the new mode shown (embedded: both windows hidden).
toggle_display_mode(mode) ==
  LET current_mode == display_mode
      m == IF mode # None THEN mode
           ELSE IF current_mode = "embedded" THEN "fullscreen"
           ELSE IF current_mode = "fullscreen" THEN "corner"
           ELSE "embedded"
      exit_fs == current_mode = "fullscreen" /\ fullscreen_display_window = "visible"
      exit_co == ~exit_fs /\ current_mode = "corner" /\ corner_overlay_window = "visible"
      fs == IF exit_fs THEN "hidden" ELSE fullscreen_display_window
      co == IF exit_co THEN "hidden" ELSE corner_overlay_window
  IN  /\ display_mode' = m
      /\ fullscreen_display_window' =
           IF m = "embedded" THEN closed(fs) ELSE IF m = "fullscreen" THEN "visible" ELSE fs
      /\ corner_overlay_window' =
           IF m = "embedded" THEN closed(co) ELSE IF m = "corner" THEN "visible" ELSE co
      /\ UNCHANGED <<feedVars, stillVars>>

\* display_btn.clicked.connect(self.toggle_display_mode): the clicked signal
\* carries the button's checked state, which the slot takes as its mode
\* argument; the button is not checkable, so the value is False.
display_btn_clicked == toggle_display_mode("False")

\* A double click on the embedded output preview.
handle_dedicated_fullscreen_toggle == toggle_display_mode("fullscreen")

\* Esc or a double click in the fullscreen window closes it.
fullscreen_closed ==
  /\ fullscreen_display_window = "visible"
  /\ fullscreen_display_window' = "hidden"
  /\ UNCHANGED <<display_mode, corner_overlay_window, feedVars, stillVars>>

\* ---- gpu_stress_test -------------------------------------------------------------
\* executor.map: an idle pool thread takes the next task and enters
\* process_image.
process_image(t) ==
  /\ stress_run[t].pc = "idle"
  /\ stress_next <= Len(StressTasks)
  /\ stress_run' = [stress_run EXCEPT ![t] = [task |-> stress_next, pc |-> "initialize"]]
  /\ stress_next' = stress_next + 1
  /\ UNCHANGED <<stress_upscaler, stress_call, notStressVars>>

\* upscaler.initialize(width, height, output_width, output_height) of the
\* thread's task; when it raises, process_image returns False.
stress_initialize(t) ==
  /\ stress_run[t].pc = "initialize"
  /\ \/ /\ stress_upscaler' = stress_run[t].task
        /\ stress_run' = [stress_run EXCEPT ![t].pc = "upscale"]
     \/ /\ stress_upscaler' = stress_upscaler
        /\ stress_run' = [stress_run EXCEPT ![t] = [task |-> 0, pc |-> "idle"]]
  /\ UNCHANGED <<stress_next, stress_call, notStressVars>>

\* upscaler.upscale(img_bytes), on the upscaler as it is then; process_image
\* returns.
stress_upscale(t) ==
  /\ stress_run[t].pc = "upscale"
  /\ stress_call' = [task |-> stress_run[t].task, init_by |-> stress_upscaler]
  /\ stress_run' = [stress_run EXCEPT ![t] = [task |-> 0, pc |-> "idle"]]
  /\ UNCHANGED <<stress_next, stress_upscaler, notStressVars>>

\* ---- specifications -----------------------------------------------------------
\* stop_capture's wait when the worker answers within the 2 seconds.
InTime == WaitOutcomes \ {"timeout"}
StopCaptureInTime == \E o \in InTime : stop_capture(o)
StartCaptureInTime == \E outcome \in StartOutcomes, o \in InTime : start_capture(outcome, o)

\* Every handler, every control.
Next ==
  \/ StartCapture
  \/ StopCapture
  \/ update_frame
  \/ Worker
  \/ GuiEvent
  \/ toggle_interpolation
  \/ SetScale
  \/ SetMethod

Spec == Init /\ [][Next]_vars

\* The pipeline with the controls left as constructed, on a source of fixed
\* frame size.
NextPipeline ==
  \/ StartCapture
  \/ StopCapture
  \/ update_frame
  \/ Worker
  \/ GuiEvent

InitPipeline == Init /\ ~resizable /\ game_target = "FullScreen"
SpecPipeline == InitPipeline /\ [][NextPipeline]_vars

\* The pipeline used in the order the GUI suggests: the user clicks (start,
\* stop, the interpolation checkbox) when the GUI thread has handled the
\* worker signals queued so far, and a worker answers within stop_capture's
\* wait.  Timer ticks, workers and queued signals interleave freely.
NextOrderly ==
  \/ queue = <<>> /\ StartCaptureInTime
  \/ queue = <<>> /\ StopCaptureInTime
  \/ queue = <<>> /\ toggle_interpolation
  \/ update_frame
  \/ Worker
  \/ GuiEvent

InitOrderly == InitPipeline /\ dlss = "usable"
SpecOrderly == InitOrderly /\ [][NextOrderly]_vars

\* The same runs when the timer keeps firing with frames to take, a running
\* worker returns, and the GUI thread keeps handling queued signals.
Tick == capture # None /\ timerActive /\ \E sz \in FrameSizes, ok \in BOOLEAN : ProcessFrame(sz, ok)
Returns == \E t \in ThreadIds : WorkerFinished(t)
SpecOrderlyFair ==
  SpecOrderly /\ WF_vars(Tick) /\ WF_vars(Returns) /\ WF_vars(GuiEvent)

\* The Start button (or the start/stop hotkey while Start is enabled), clicked
\* when the GUI thread has handled the worker signals queued so far.
ClickStart == start_btn /\ queue = <<>> /\ StartCaptureInTime

\* The orderly pipeline on a source that can change its frame size (a window
\* being resized), started with the Start button and never stopped.
NextResize ==
  \/ ClickStart
  \/ queue = <<>> /\ toggle_interpolation
  \/ update_frame
  \/ Worker
  \/ GuiEvent

InitResize == Init /\ resizable /\ dlss = "usable" /\ game_target = "FullScreen"
SpecResize == InitResize /\ [][NextResize]_vars

\* The pipeline started with the Start button on a source of fixed frame
\* size, the user moving the scale slider at any time.
NextScale ==
  \/ ClickStart
  \/ SetScale
  \/ update_frame
  \/ Worker
  \/ GuiEvent

SpecScale == InitOrderly /\ [][NextScale]_vars

\* The GUI thread of a running pipeline, step by step.
NextLoop ==
  \/ TimerFires
  \/ BeginTick
  \/ StepTick
  \/ EndTick
  \/ LoopWorkerFinished
  \/ BeginSink
  \/ EndSink

SpecLoop == InitOrderly /\ [][NextLoop]_vars

\* The upscaler's adaptive quality alone.
NextQuality ==
  \/ set_adaptive_quality
  \/ ReportFrameTime

SpecQuality == InitOrderly /\ [][NextQuality]_vars

\* The BufferPool and its tasks alone.
NextPool ==
  \/ StartTask
  \/ Acquire
  \/ Release
  \/ FinishTask

SpecPool == InitOrderly /\ [][NextPool]_vars

\* The Stop button, clicked when the GUI thread has handled the worker signals
\* queued so far; the wait for the worker may time out.
ClickStop == stop_btn /\ queue = <<>> /\ StopCapture

\* The pipeline driven by its two buttons, with workers that do not fail but
\* may outlast stop_capture's wait.
NextGrace ==
  \/ ClickStart
  \/ ClickStop
  \/ update_frame
  \/ Returns
  \/ \E t \in ThreadIds : ThreadExit(t)
  \/ GuiEvent

SpecGrace == InitOrderly /\ [][NextGrace]_vars

\* SimpleNuScalerApp with its buttons, its slider and its timer.
NextSimple ==
  \/ simple_start_capture
  \/ simple_stop_capture
  \/ simple_set_scale
  \/ simple_update_frame

SpecSimple == InitOrderly /\ [][NextSimple]_vars

\* One iteration of the stress test: the pool threads run concurrently.
NextStress ==
  \/ \E t \in 1..max_workers : process_image(t)
  \/ \E t \in 1..max_workers : stress_initialize(t)
  \/ \E t \in 1..max_workers : stress_upscale(t)

SpecStress == InitOrderly /\ [][NextStress]_vars

\* The display mode controls of LiveFeedScreen, with its Start and Stop
\* buttons and its frame timer.
NextDisplay ==
  \/ display_btn_clicked
  \/ handle_dedicated_fullscreen_toggle
  \/ fullscreen_closed
  \/ ClickStart
  \/ ClickStop
  \/ update_frame

SpecDisplay == InitOrderly /\ [][NextDisplay]_vars

\* One run of the command-line benchmark.
NextBench ==
  \/ parse_args
  \/ main_checks
  \/ main_run

SpecBench == InitOrderly /\ [][NextBench]_vars

\* The game tab alone.
NextGame ==
  \/ StartGameCapture
  \/ update_game_frame
  \/ SetGameTarget

InitGameTab == Init /\ ~resizable /\ dlss = "usable"
SpecGame == InitGameTab /\ [][NextGame]_vars

\* ---- properties ---------------------------------------------------------------
\* The states of the pipeline as the buttons and the timer show them.
Idle == capture = None /\ ~timerActive /\ start_btn /\ ~stop_btn
Running == capture = "started" /\ timerActive /\ ~start_btn /\ stop_btn

\* The workers inside upscaler.upscale.
InFlight == {t \in ThreadIds : threads[t].st = "running"}

\* C1: within one capture session the sink receives frames in capture order: a
\* frame shown by on_upscale_finished is never older than a frame of the same
\* session shown before it.
C1_SinkOrder ==
  [][\A f \in delivered' \ delivered :
       \A g \in delivered : g.sess = f.sess => g.id <= f.id]_vars

\* C3: once stop_capture has returned, on_upscale_finished shows no frame
\* until start_capture is called again.
C3_NoSinkAfterStop == [][delivered' # delivered => capture # None]_vars

\* C5: at every moment at most one upscale task is in flight.
C5_OneInFlight == Cardinality(InFlight) <= 1

\* C9: a start_capture that is called while the pipeline is Idle and does not
\* start the capture leaves the pipeline Idle: no capture object retained,
\* timer not running, Start enabled, Stop disabled.
C9_FailedStartStaysIdle == [][Idle /\ capture' # "started" => Idle']_vars

\* C10: when DLSS is selected but cannot be constructed or initialized, a tick
\* that captured a frame leaves the pipeline with a non-neural upscaler.
C10_DlssFallback ==
  [][(nextFrame' # nextFrame /\ method_box = "DLSS" /\ dlss # "usable")
       => (upscaler' # NoUpscaler /\ upscaler'.method # "DLSS")]_vars

\* A tick that took a frame from the capture.
Captured == nextFrame' # nextFrame
\* A tick that handed a frame to a new worker thread.
Dispatched(t) == threads[t].st = "none" /\ threads'[t].st = "running"
\* The GUI thread runs the slot of a queued signal of the given type.
Handled(type) == queue # <<>> /\ Head(queue).type = type /\ queue' = Tail(queue)

Started == capture' = "started" /\ (capture # "started" \/ sessionStart' # sessionStart)
\* The running session has shown a frame / has a failed worker.
SessionDelivered == \E f \in delivered : f.sess = sessionStart
SessionFailed == \E t \in ThreadIds : t >= sessionStart /\ threads[t].st = "failed"

LiveGameCaptures == {c \in CaptureIds : captures[c] = "started"}

\* C8: start is idempotent: a start issued while a capture is already running
\* leaves one live capture object and one active timer, the earlier capture
\* stopped.  (Stated for start_game_capture, the start handler that has no
\* guard of its own and whose button stays enabled while running.)
C8_RestartStopsEarlier ==
  [][(game_capture # 0 /\ captures[game_capture] = "started"
        /\ game_capture' # game_capture)
       => (captures'[game_capture] = "stopped"
             /\ Cardinality(LiveGameCaptures') <= 1)]_vars

\* The messages init_upscaler logs when constructing or initializing the
\* selected upscaler raised.
InitErrors == {m \in log_signal : m.msg = "Error initializing upscaler"}

\* C11: with DLSS selected but unavailable, the warning is recorded once per
\* pipeline start, however many ticks follow.
C11_WarnedOncePerStart ==
  \A m, n \in InitErrors : m.sess = n.sess => m = n

\* The mismatch messages the interpolation step has logged.
MismatchLog ==
  {m \in log_signal : m.msg = "Frame Interpolation: Skipped (dimension mismatch)"}

\* A tick that took a frame whose size differs from the previous frame held,
\* with interpolation on.
MismatchTick ==
  /\ Captured /\ interpolation_enabled /\ interpolator
  /\ prev_frame_data # NoPrevFrame
  /\ (prev_frame_data'.w # prev_frame_data.w \/ prev_frame_data'.h # prev_frame_data.h)

Round(x, tenths) == (x * tenths + 5) \div 10

\* C13: the output dimensions the upscaler is initialized with are
\* round(in_w * scale) by round(in_h * scale) for the scale the slider held.
C13_RoundedOutput ==
  upscaler # NoUpscaler =>
    /\ upscaler.out_w = Round(upscaler.in_w, _last_scale)
    /\ upscaler.out_h = Round(upscaler.in_h, _last_scale)

\* C14: every frame shown by on_upscale_finished carries the output width and
\* height its upscaler was initialized with, so that its buffer has
\* 4 * width * height bytes.
C14_DeliveredDims ==
  \A f \in delivered : f.w = f.up_w /\ f.h = f.up_h

\* C15: the capture poll is never blocked by downstream work: while the sink
\* slot, an interpolation or an upscaler initialization executes, a tick that
\* is due can still run.
C15_PollNeverBlocked ==
  (timer_due /\ gui_in \in Downstream) => ENABLED BeginTick

\* C16: between handlers the pipeline is Idle or Running (Stopping is the
\* inside of stop_capture); Running is entered only from Idle by a start that
\* succeeded, Idle is re-entered only from Running, and a tick, a slot of a
\* worker signal or the interpolation checkbox never changes the state.
C16_StateMachine ==
  /\ [](Idle \/ Running)
  /\ [][(~Running /\ Running') => (Idle /\ Started)]_vars
  /\ [][(~Idle /\ Idle') => Running]_vars
  /\ [][(\/ Captured
         \/ Handled("finished") \/ Handled("error") \/ Handled("clear")
         \/ interpolation_enabled' # interpolation_enabled)
          => UNCHANGED uiVars]_vars

\* C17: a stop, also one whose backend stop call fails, leaves the pipeline
\* Idle: timer stopped, status Idle and the capture reference cleared.  (Stated
\* for stop_game_capture, the stop handler that calls the backend unguarded;
\* the game tab's Start button is always enabled and its Stop button never.)
C17_StopLeavesIdle ==
  [][(game_timer = "active" /\ game_timer' = "stopped")
       => (game_status' = "Idle" /\ game_capture' = 0)]_vars

\* C18: the tier changes only with adaptive quality enabled and by one step
\* at a time; it steps down (unless at Performance) on the fourth frame in a
\* row with the moving average over budget, and not again before four more
\* frames have passed (the cooldown); it steps up only on a frame that
\* completes sixteen in a row under 70% of budget.
C18_AdaptiveStep ==
  /\ [][quality' # quality => adaptive_quality]_vars
  /\ [][quality' > quality =>
          /\ quality' = quality + 1
          /\ over_streak' >= FramesOver
          /\ since_down + 1 >= FramesOver]_vars
  /\ [][(over_streak' = FramesOver /\ over_streak # FramesOver /\ quality < Len(Tiers))
          => quality' = quality + 1]_vars
  /\ [][quality' < quality =>
          /\ quality' = quality - 1
          /\ under_streak' >= FramesUnder]_vars

\* The tier has stepped down to "quality", the average has stayed over budget
\* since, and the cooldown has kept the tier where it is.
C18_Witness ==
  /\ adaptive_quality /\ Tiers[quality] = "quality"
  /\ over_streak = FramesOver + 3 /\ since_down = 3

\* C19: every buffer the pool tracks is either in the free list, once, and
\* held by no task, or out of the free list and held under one handle by one
\* task in flight; and a task that completes or is cancelled holds nothing
\* afterwards, its buffers back in the free list.
C19_PoolOwnership ==
  /\ [](\A b \in Tracked :
          \/ /\ Cardinality({i \in 1..Len(free) : free[i] = b}) = 1
             /\ Holders(b) = {}
          \/ /\ ~InFree(b)
             /\ Cardinality({h \in Handles : hst[h] = "held" /\ h.buf = b}) = 1
             /\ \A t \in Holders(b) : task_st[t] = "running")
  /\ [][\A t \in Tasks : (task_st[t] = "running" /\ task_st'[t] = "idle") =>
          /\ Held(t)' = {}
          /\ \A h \in Held(t) : InFree(h.buf)']_vars

\* Two tasks in flight hold a buffer each, both buffers handed out for the
\* second time.
C19_Witness ==
  /\ Holders(1) # {} /\ Holders(2) # {} /\ Holders(1) # Holders(2)
  /\ gen[1] = 2 /\ gen[2] = 2

\* C20: a release made with a handle whose buffer is not checked out under it
\* (a second release after one acquire) is detected as a violation, and no
\* buffer is ever twice in the free list or held under two handles.
C20_DoubleReleaseDetected ==
  /\ \A h \in Handles : calls[h] >= 2 => h \in violations
  /\ \A i, j \in 1..Len(free) : free[i] = free[j] => i = j
  /\ \A b \in Buffers : Cardinality({h \in Handles : hst[h] = "held" /\ h.buf = b}) <= 1

\* A handle was released twice, the second release detected, while its buffer
\* is checked out again by another task.
C20_Witness ==
  \E h \in Handles :
    /\ calls[h] = 2 /\ h \in violations
    /\ \E t \in Holders(h.buf) : t # htask[h]

StopAbandons ==
  /\ StopCapture
  /\ \E t \in ThreadIds : t = _upscale_thread /\ threads'[t].st = "running"

\* C22: stop_capture always returns: with a worker inside upscale it can
\* return without the worker ever completing (the wait ends after the grace
\* period), and however it returns the pipeline is Idle with no thread held;
\* the thread it gave up on has been told to quit and is left behind.
C22_StopReturns ==
  /\ []((_upscale_thread # 0 /\ threads[_upscale_thread].st = "running")
          => ENABLED StopAbandons)
  /\ [][(capture # None /\ capture' = None) =>
          /\ Idle' /\ _upscale_thread' = 0 /\ upscaler' = NoUpscaler
          /\ \A t \in ThreadIds :
               (t = _upscale_thread /\ threads'[t].st = "running") => threads'[t].quitReq]_vars

\* The pipeline is Idle after a stop while the worker it gave up on is still
\* inside upscale.
C22_Witness ==
  /\ Idle /\ _upscale_thread = 0
  /\ \E t \in ThreadIds : threads[t].st = "running" /\ threads[t].quitReq

\* C23: no benchmark runs and no upscaler is initialized with a scale factor
\* outside [1.0, 4.0].
C23_ScaleInRange ==
  /\ \A s \in benchmarked : ~s.nan /\ s.tenths >= 10 /\ s.tenths <= 40
  /\ scale_slider >= 10 /\ scale_slider <= 40
  /\ upscaler # NoUpscaler => (_last_scale >= 10 /\ _last_scale <= 40)

\* The upscale thread the screen holds is one whose worker raised.
HeldFailed == _upscale_thread # 0 /\ threads[_upscale_thread].st = "failed"

\* C24: after a worker error the pipeline keeps processing without a stop or a
\* start: the held thread of the failed worker is eventually let go, so that a
\* later frame can be handed to a new worker.
C24_ErrorRecovers == (Running /\ HeldFailed) ~> (_upscale_thread = 0)

\* C25: whenever upscale is called, the upscaler instance it is called on has
\* been initialized with the frame's dimensions and the current scale.
C25_UpscalerInitialized == simple_call.init = simple_call.frame

\* C26: interpolation never pairs frames of two capture sessions: the frame
\* an interpolated frame is made with was captured in the same session.
C26_SameSessionPair ==
  [][\A t \in ThreadIds :
       (Dispatched(t) /\ threads'[t].frame.kind = "Interpolated")
         => prev_frame_data.sess = threads'[t].frame.sess]_vars

\* C27: exactly one of the Start and Stop buttons is enabled, Stop is enabled
\* exactly when the frame timer is active, and the timer is active only while
\* a capture object is held.
C27_ButtonsFollowTimer ==
  /\ start_btn # stop_btn
  /\ stop_btn = timerActive
  /\ timerActive => capture # None

\* A start has failed after an earlier session ran: the timer is stopped and
\* Start is enabled while the screen holds the capture object that did not
\* start.
C27_Witness ==
  /\ capture = "unstarted" /\ sessionStart > 0
  /\ ~timerActive /\ start_btn /\ ~stop_btn

\* C28: every upscale call of the stress test executes on an upscaler whose
\* most recent initialize was made by the same task, for that task's dimensions.
C28_InitializedBySameTask ==
  /\ stress_call.init_by = stress_call.task
  /\ stress_call.task # 0 =>
       StressTasks[stress_call.init_by] = StressTasks[stress_call.task]

\* The mode that follows a mode in the cycle of the display-mode button.
NextMode(m) ==
  IF m = "embedded" THEN "fullscreen" ELSE IF m = "fullscreen" THEN "corner" ELSE "embedded"

\* C29: the display-mode button cycles embedded -> fullscreen -> corner ->
\* embedded; the mode is always one of the three, and at most one of the
\* fullscreen and corner windows is visible.
C29_DisplayCycle ==
  /\ [](display_mode \in {"embedded", "fullscreen", "corner"})
  /\ [](~(fullscreen_display_window = "visible" /\ corner_overlay_window = "visible"))
  /\ [][display_btn_clicked => display_mode' = NextMode(display_mode)]_vars

\* C30: in the game tab, whenever the capture is running (status Running with
\* the timer active) the Stop Capture button is enabled, and a stop leaves the
\* timer inactive and the status Idle.
C30_GameStopEnabled ==
  /\ []((game_status = "Running" /\ game_timer = "active") => game_stop_btn)
  /\ [][(game_timer = "active" /\ game_timer' # "active")
          => (game_timer' = "stopped" /\ game_status' = "Idle")]_vars

====
